---- MODULE Spec2Model ----
(***************************************************************************)
(* pomod: the Pomodoro timer of src/main.rs.                               *)
(*                                                                         *)
(* The Timer struct is the record variable `timer`.  Durations are whole   *)
(* seconds.  An Instant is never read except through `now - last_poll`     *)
(* and `is_none()`, so last_poll is carried as the Duration                *)
(* since_last_poll = Instant::now() - timer.last_poll, and the Instant     *)
(* stored in state_start_time is the opaque value NOW.                     *)
(*                                                                         *)
(* Two specifications:                                                     *)
(*   Spec      a client calling the Timer's methods in any order           *)
(*   SpecMain  the driver loop of main()                                   *)
(***************************************************************************)
EXTENDS Integers, Sequences, FiniteSets, TLC

VARIABLES
  timer,            \* the Timer struct (all fields but last_poll)
  since_last_poll,  \* Instant::now() - timer.last_poll, in seconds
  pc,               \* "client" under Spec; position of main's loop under SpecMain
  op,               \* the method called by the last step
  was_running,      \* timer.running before the last step
  fired,            \* arguments the observer closure received during the last step
  calls,            \* observer invocations since the Timer was constructed
  advances,         \* changes of timer.state since the Timer was constructed
  run_time,         \* time passed with running = true in the current phase
  frozen,           \* state/remaining_time/break_counter as stop() found them
  polls,            \* poll() calls since the first start()
  poll_time         \* elapsed time those polls measured

vars == <<timer, since_last_poll, pc, op, was_running, fired, calls,
          advances, run_time, frozen, polls, poll_time>>

\* ---------------------------------------------------------------- bounds
MaxAdvances == 10
MaxSincePoll == 900
MaxPolls == 3
MaxStoppedPolls == 2

\* amounts of time that pass between two steps
Delays == {300, 600}

\* ------------------------------------------------------------- constants
POMODORO_TIME == 25 * 60
SHORT_BREAK_TIME == 5 * 60
LONG_BREAK_TIME == 30 * 60
BREAK_CYCLE == 4

\* ---------------------------------------------------------------- Option
NONE == <<>>
Some(x) == <<x>>
is_none(o) == o = <<>>
is_some(o) == o # <<>>
unwrap(o) == o[1]

\* the value of Instant::now(); only its presence is ever observed
NOW == "Instant"
\* the closure main() registers
CLOSURE == "notify"

Min(a, b) == IF a <= b THEN a ELSE b

\* Duration::checked_sub
checked_sub_lt(a, b) == IF b < a THEN Some(a - b) ELSE NONE
checked_sub_saturating(a, b) == IF b <= a THEN Some(a - b) ELSE Some(0)
checked_sub(a, b) == IF b <= a THEN Some(a - b) ELSE NONE

\* u8 addition
U8Add(a, b) == (a + b) % 256

\* ------------------------------------------------------------ TimerState
TimerState == {"None", "Pomodoro", "ShortBreak", "LongBreak"}

time(s) ==
  CASE s \in {"None", "Pomodoro"} -> POMODORO_TIME
    [] s = "ShortBreak" -> SHORT_BREAK_TIME
    [] s = "LongBreak" -> LONG_BREAK_TIME

\* TimerState::next: the pair <<*self, *break_counter>> it leaves
next_off_by_one(s, break_counter) ==
  CASE s = "None" -> <<"Pomodoro", break_counter>>
    [] s = "Pomodoro" ->
         <<IF break_counter < BREAK_CYCLE THEN "ShortBreak" ELSE "LongBreak",
           U8Add(break_counter, 1) % BREAK_CYCLE>>
    [] s \in {"ShortBreak", "LongBreak"} -> <<"Pomodoro", break_counter>>
next_counts_breaks(s, break_counter) ==
  CASE s = "None" -> <<"Pomodoro", break_counter>>
    [] s = "Pomodoro" ->
         <<IF break_counter < BREAK_CYCLE - 1 THEN "ShortBreak" ELSE "LongBreak",
           U8Add(break_counter, 1) % BREAK_CYCLE>>
    [] s \in {"ShortBreak", "LongBreak"} ->
         <<"Pomodoro", U8Add(break_counter, 1) % BREAK_CYCLE>>
next_no_wrap(s, break_counter) ==
  CASE s = "None" -> <<"Pomodoro", break_counter>>
    [] s = "Pomodoro" ->
         <<IF break_counter < BREAK_CYCLE - 1 THEN "ShortBreak" ELSE "LongBreak",
           U8Add(break_counter, 1)>>
    [] s \in {"ShortBreak", "LongBreak"} -> <<"Pomodoro", break_counter>>
next_back_to_none(s, break_counter) ==
  CASE s = "None" -> <<"Pomodoro", break_counter>>
    [] s = "Pomodoro" ->
         <<IF break_counter < BREAK_CYCLE - 1 THEN "ShortBreak" ELSE "LongBreak",
           U8Add(break_counter, 1) % BREAK_CYCLE>>
    [] s = "ShortBreak" -> <<"Pomodoro", break_counter>>
    [] s = "LongBreak" -> <<"None", break_counter>>
next_counter_first(s, break_counter) ==
  LET c == U8Add(break_counter, 1) % BREAK_CYCLE IN
  CASE s = "None" -> <<"Pomodoro", break_counter>>
    [] s = "Pomodoro" ->
         <<IF c < BREAK_CYCLE - 1 THEN "ShortBreak" ELSE "LongBreak", c>>
    [] s \in {"ShortBreak", "LongBreak"} -> <<"Pomodoro", break_counter>>
next(s, break_counter) ==
  CASE s = "None" -> <<"Pomodoro", break_counter>>
    [] s = "Pomodoro" ->
         <<IF break_counter < BREAK_CYCLE - 1 THEN "ShortBreak" ELSE "LongBreak",
           U8Add(break_counter, 1) % BREAK_CYCLE>>
    [] s \in {"ShortBreak", "LongBreak"} -> <<"Pomodoro", break_counter>>

\* ----------------------------------------------------------------- Timer
new_expired ==
  [running |-> FALSE, state |-> "None", state_start_time |-> NONE,
   remaining_time |-> NONE, break_counter |-> 0,
   state_change_callback |-> NONE]
new ==
  [running |-> FALSE, state |-> "None", state_start_time |-> NONE,
   remaining_time |-> Some(time("None")), break_counter |-> 0,
   state_change_callback |-> NONE]

begin_next_state_keeps_time(t) ==
  LET n == next(t.state, t.break_counter) IN
  [t EXCEPT !.state = n[1], !.break_counter = n[2]]
begin_next_state(t) ==
  LET n == next(t.state, t.break_counter) IN
  [t EXCEPT !.state = n[1], !.break_counter = n[2],
            !.remaining_time = Some(time(n[1]))]

start_unguarded(t) ==
  [begin_next_state([t EXCEPT !.state_start_time = Some(NOW)])
     EXCEPT !.running = TRUE]
start_restarts_phase(t) ==
  IF ~t.running
    THEN LET u == IF is_none(t.state_start_time)
                    THEN begin_next_state([t EXCEPT !.state_start_time = Some(NOW)])
                    ELSE [t EXCEPT !.remaining_time = Some(time(t.state))]
         IN [u EXCEPT !.running = TRUE]
    ELSE t
start_no_timestamp(t) ==
  IF ~t.running
    THEN LET u == IF is_none(t.state_start_time) THEN begin_next_state(t) ELSE t
         IN [u EXCEPT !.running = TRUE]
    ELSE t
start(t) ==
  IF ~t.running
    THEN LET u == IF is_none(t.state_start_time)
                    THEN begin_next_state([t EXCEPT !.state_start_time = Some(NOW)])
                    ELSE t
         IN [u EXCEPT !.running = TRUE]
    ELSE t

stop_rewinds(t) ==
  IF t.running
    THEN [t EXCEPT !.running = FALSE, !.remaining_time = Some(time(t.state))]
    ELSE t
stop(t) == IF t.running THEN [t EXCEPT !.running = FALSE] ELSE t

toggle_swapped(t) == IF t.running THEN start(t) ELSE stop(t)
toggle(t) == IF ~t.running THEN start(t) ELSE stop(t)

on_state_change(t, callback) == [t EXCEPT !.state_change_callback = Some(callback)]

\* Timer::poll with elapsed = Instant::now() - self.last_poll: the Timer it
\* leaves and the arguments it passed to the callback
poll_ignores_running(t, elapsed) ==
  IF is_none(t.remaining_time)
    THEN LET u == begin_next_state(t) IN
         [timer |-> u,
          callback |-> IF is_some(u.state_change_callback) THEN <<u.state>> ELSE <<>>]
    ELSE [timer |-> [t EXCEPT !.remaining_time =
                        checked_sub(unwrap(t.remaining_time), elapsed)],
          callback |-> <<>>]
poll_old_state(t, elapsed) ==
  IF t.running
    THEN IF is_none(t.remaining_time)
           THEN LET u == begin_next_state(t) IN
                [timer |-> u,
                 callback |-> IF is_some(u.state_change_callback)
                                THEN <<t.state>> ELSE <<>>]
           ELSE [timer |-> [t EXCEPT !.remaining_time =
                               checked_sub(unwrap(t.remaining_time), elapsed)],
                 callback |-> <<>>]
    ELSE [timer |-> t, callback |-> <<>>]
poll_eager(t, elapsed) ==
  IF t.running
    THEN LET r == IF is_none(t.remaining_time) THEN NONE
                  ELSE checked_sub(unwrap(t.remaining_time), elapsed)
         IN IF is_none(r)
              THEN LET u == begin_next_state(t) IN
                   [timer |-> u,
                    callback |-> IF is_some(u.state_change_callback)
                                   THEN <<u.state>> ELSE <<>>]
              ELSE [timer |-> [t EXCEPT !.remaining_time = r], callback |-> <<>>]
    ELSE [timer |-> t, callback |-> <<>>]
poll_charges_fresh(t, elapsed) ==
  IF t.running
    THEN IF is_none(t.remaining_time)
           THEN LET u == begin_next_state(t)
                    v == [u EXCEPT !.remaining_time =
                            checked_sub(unwrap(u.remaining_time), elapsed)]
                IN [timer |-> v,
                    callback |-> IF is_some(v.state_change_callback)
                                   THEN <<v.state>> ELSE <<>>]
           ELSE [timer |-> [t EXCEPT !.remaining_time =
                               checked_sub(unwrap(t.remaining_time), elapsed)],
                 callback |-> <<>>]
    ELSE [timer |-> t, callback |-> <<>>]
poll(t, elapsed) ==
  IF t.running
    THEN IF is_none(t.remaining_time)
           THEN LET u == begin_next_state(t) IN
                [timer |-> u,
                 callback |-> IF is_some(u.state_change_callback)
                                THEN <<u.state>> ELSE <<>>]
           ELSE [timer |-> [t EXCEPT !.remaining_time =
                               checked_sub(unwrap(t.remaining_time), elapsed)],
                 callback |-> <<>>]
    ELSE [timer |-> t, callback |-> <<>>]

\* --------------------------------------------------------- history state
snapshot(t) ==
  [state |-> t.state, remaining_time |-> t.remaining_time,
   break_counter |-> t.break_counter]

\* What one method call `o` leaves: the Timer `t2`, `cb` passed to the
\* observer, `lp` the new value of now - last_poll, and the counters `adv`
\* (advances) and `cl` (calls).
Record(o, t2, cb, lp, adv, cl) ==
  LET changed == t2.state # timer.state
      fresh == o = "new"
      stopping == timer.running /\ ~t2.running
      polling == o = "poll"
      counted == polling /\ is_some(timer.state_start_time) /\ polls < MaxPolls
  IN
  /\ timer' = t2
  /\ since_last_poll' = lp
  /\ op' = o
  /\ was_running' = timer.running
  /\ fired' = cb
  /\ calls' = cl
  /\ advances' = adv
  /\ run_time' = IF fresh \/ changed THEN 0 ELSE run_time
  /\ frozen' =
       IF fresh THEN NONE
       ELSE IF stopping THEN Some([at_stop |-> snapshot(timer), polls |-> 0])
       ELSE IF polling /\ timer.running THEN NONE
       ELSE IF polling /\ is_some(frozen)
         THEN Some([unwrap(frozen) EXCEPT
                      !.polls = Min(@ + 1, MaxStoppedPolls)])
       ELSE frozen
  /\ polls' =
       IF fresh THEN 0
       ELSE IF stopping THEN MaxPolls
       ELSE IF counted THEN polls + 1
       ELSE polls
  /\ poll_time' =
       IF fresh \/ stopping THEN 0
       ELSE IF counted
         THEN IF polls + 1 = MaxPolls THEN 0
              ELSE Min(poll_time + since_last_poll, LONG_BREAK_TIME)
       ELSE poll_time

\* One method call, counted from the construction of the Timer; the model
\* follows a Timer through MaxAdvances changes of state.
Call(o, t2, cb, lp) ==
  LET changed == t2.state # timer.state
      fresh == o = "new"
  IN
  /\ changed => advances < MaxAdvances
  /\ Record(o, t2, cb, lp,
            IF fresh THEN 0 ELSE IF changed THEN advances + 1 ELSE advances,
            IF fresh THEN 0 ELSE calls + Len(cb))

\* One method call of a Timer that runs forever: advances is kept modulo the
\* 2 * BREAK_CYCLE states of one cycle once it passes MaxAdvances, and calls
\* is counted up to MaxAdvances.
CallCyclic(o, t2, cb, lp) ==
  LET changed == t2.state # timer.state
      next_adv == IF advances < MaxAdvances THEN advances + 1
                  ELSE advances + 1 - 2 * BREAK_CYCLE
  IN
  Record(o, t2, cb, lp,
         IF changed THEN next_adv ELSE advances,
         Min(calls + Len(cb), MaxAdvances))

\* A step `o` in which no method of the Timer runs
NoCall(o) ==
  /\ op' = o
  /\ was_running' = timer.running
  /\ fired' = <<>>

\* ------------------------------------------------------ time passing
Wait ==
  \E d \in Delays :
    /\ since_last_poll + d <= MaxSincePoll
    /\ since_last_poll' = since_last_poll + d
    /\ run_time' = IF timer.running THEN Min(run_time + d, LONG_BREAK_TIME)
                   ELSE run_time
    /\ NoCall("wait")
    /\ UNCHANGED <<timer, pc, calls, advances, frozen, polls, poll_time>>

\* ------------------------------------------------ Spec: a client of Timer
New ==
  /\ pc = "client"
  /\ Call("new", new, <<>>, 0)
  /\ UNCHANGED pc

Start ==
  /\ pc = "client"
  /\ Call("start", start(timer), <<>>, since_last_poll)
  /\ UNCHANGED pc

Stop ==
  /\ pc = "client"
  /\ Call("stop", stop(timer), <<>>, since_last_poll)
  /\ UNCHANGED pc

Toggle ==
  /\ pc = "client"
  /\ Call("toggle", toggle(timer), <<>>, since_last_poll)
  /\ UNCHANGED pc

OnStateChange ==
  /\ pc = "client"
  /\ Call("on_state_change", on_state_change(timer, CLOSURE), <<>>, since_last_poll)
  /\ UNCHANGED pc

Poll ==
  /\ pc = "client"
  /\ LET r == poll(timer, since_last_poll) IN Call("poll", r.timer, r.callback, 0)
  /\ UNCHANGED pc

InitHistory ==
  /\ since_last_poll = 0
  /\ op = "new"
  /\ was_running = FALSE
  /\ fired = <<>>
  /\ calls = 0
  /\ advances = 0
  /\ run_time = 0
  /\ frozen = NONE
  /\ polls = 0
  /\ poll_time = 0

Init ==
  /\ timer = new
  /\ pc = "client"
  /\ InitHistory

Next == New \/ Start \/ Stop \/ Toggle \/ OnStateChange \/ Poll \/ Wait

Spec == Init /\ [][Next]_vars

\* ------------------------------------------- SpecMain: the loop of main()
\* main() up to the loop: Timer::new() and on_state_change(closure)
MainInit ==
  /\ timer = on_state_change(new, CLOSURE)
  /\ pc = "wait"
  /\ InitHistory

\* signal_trap.wait returns SIGUSR1
SigToggle ==
  /\ pc = "wait"
  /\ Call("toggle", toggle(timer), <<>>, since_last_poll)
  /\ pc' = "poll"

\* signal_trap.wait returns SIGUSR2
SigReset ==
  /\ pc = "wait"
  /\ Call("new", new, <<>>, 0)
  /\ pc' = "poll"

\* signal_trap.wait returns None
Timeout ==
  /\ pc = "wait"
  /\ pc' = "poll"
  /\ NoCall("timeout")
  /\ UNCHANGED <<timer, since_last_poll, calls, advances, run_time, frozen,
                 polls, poll_time>>

\* timer.poll() and the status line
LoopPoll ==
  /\ pc = "poll"
  /\ LET r == poll(timer, since_last_poll) IN Call("poll", r.timer, r.callback, 0)
  /\ pc' = "wait"

NextMain == SigToggle \/ SigReset \/ Timeout \/ LoopPoll \/ Wait

SpecMain == MainInit /\ [][NextMain]_vars

\* ------------------- SpecLive: the loop of main(), started and left running
\* SIGUSR1 while the Timer is not running
LiveToggle ==
  /\ pc = "wait"
  /\ ~timer.running
  /\ Call("toggle", toggle(timer), <<>>, since_last_poll)
  /\ pc' = "poll"

\* timer.poll() and the status line
LivePoll ==
  /\ pc = "poll"
  /\ LET r == poll(timer, since_last_poll) IN
       CallCyclic("poll", r.timer, r.callback, 0)
  /\ pc' = "wait"

NextLive == LiveToggle \/ Timeout \/ LivePoll \/ Wait

\* the loop never ends, signal_trap.wait returns after 500 ms at the latest,
\* and the clock moves on
SpecLive ==
  /\ MainInit
  /\ [][NextLive]_vars
  /\ WF_vars(Timeout)
  /\ WF_vars(LivePoll)
  /\ WF_vars(Wait)

\* ================================================================ claims

\* C1: counting from construction, the n-th value timer.state takes is the
\* n-th element of Work, ShortBreak, Work, ShortBreak, Work, ShortBreak, Work,
\* LongBreak repeated with period 8, whatever time the polls measured; no
\* transition leads back to the pre-start state.
Cycle ==
  <<"Pomodoro", "ShortBreak", "Pomodoro", "ShortBreak",
    "Pomodoro", "ShortBreak", "Pomodoro", "LongBreak">>
StateAfter(n) == IF n = 0 THEN "None" ELSE Cycle[((n - 1) % Len(Cycle)) + 1]
C1_CycleOrder == timer.state = StateAfter(advances)
C1_Witness == advances = 10 /\ timer.state = "ShortBreak" /\ timer.break_counter = 1

\* C2 (as stated): after start() and two polls that measured 1500 s in
\* total, the Timer is in a break state and the observer ran once, with it.
C2_Original ==
  (op = "poll" /\ polls = 2 /\ poll_time = POMODORO_TIME)
    => /\ timer.state \in {"ShortBreak", "LongBreak"}
       /\ calls = 1
       /\ fired = <<timer.state>>
\* C2 (amended): after start() and two polls that measured 1500 s in total,
\* the Timer is still in Work with remaining_time = Some(0) and the observer
\* has not run.
C2_TwoPollsStillWork ==
  (op = "poll" /\ polls = 2 /\ poll_time = POMODORO_TIME)
    => /\ timer.state = "Pomodoro"
       /\ timer.remaining_time = Some(0)
       /\ calls = 0
       /\ fired = <<>>
C2_Witness ==
  /\ op = "poll" /\ polls = 2 /\ poll_time = POMODORO_TIME
  /\ timer.running
  /\ is_some(timer.state_change_callback)

\* C3 (as stated): in the loop of main(), every poll that advances an
\* expired phase passes the new state to the observer, also after a Reset.
C3_ObserverAfterReset ==
  [][(op' = "poll" /\ timer.running /\ is_none(timer.remaining_time))
       => fired' = <<timer'.state>>]_vars

\* C4: a reset leaves the Timer in the initial configuration (not running,
\* pre-start state, break_counter 0, no start time, 1500 s remaining, no
\* observer), and while no observer is registered no step invokes one.
C4_ResetInitial ==
  [][/\ op' = "new" =>
          /\ timer'.running = FALSE
          /\ timer'.state = "None"
          /\ timer'.break_counter = 0
          /\ timer'.state_start_time = NONE
          /\ timer'.remaining_time = Some(1500)
          /\ timer'.state_change_callback = NONE
          /\ fired' = <<>>
     /\ is_none(timer.state_change_callback) => fired' = <<>>]_vars
C4_Witness ==
  /\ op = "new" /\ was_running
  /\ timer.state = "None" /\ ~timer.running

\* C5 (as stated): whenever remaining_time is None, the next poll leaves it
\* Some.
C5_Original ==
  [][(op' = "poll" /\ is_none(timer.remaining_time))
       => is_some(timer'.remaining_time)]_vars
\* C5 (amended): whenever remaining_time is None and the Timer is running,
\* the next poll changes the state and leaves remaining_time = Some(nominal
\* duration of the new state); a poll of a stopped Timer leaves it None.
C5_RunningPollAdvances ==
  [][/\ (op' = "poll" /\ timer.running /\ is_none(timer.remaining_time))
          => /\ timer'.state # timer.state
             /\ timer'.remaining_time = Some(time(timer'.state))
     /\ (op' = "poll" /\ ~timer.running /\ is_none(timer.remaining_time))
          => is_none(timer'.remaining_time)]_vars
C5_Witness ==
  /\ op = "poll" /\ is_some(fired)
  /\ timer.state = "LongBreak"
  /\ timer.remaining_time = Some(LONG_BREAK_TIME)

\* C6 (as stated): within a phase, remaining_time has decreased by no more
\* than the time that passed while running was true in that phase.
C6_OnlyRunningTimeCharged ==
  is_some(timer.remaining_time)
    => time(timer.state) - unwrap(timer.remaining_time) <= run_time

\* C7: from stop() until the first poll after the following start(), state,
\* remaining_time and break_counter are what stop() found.
C7_StopFreezes ==
  is_some(frozen) => snapshot(timer) = unwrap(frozen).at_stop
C7_Witness ==
  /\ is_some(frozen) /\ unwrap(frozen).polls = MaxStoppedPolls
  /\ op = "start" /\ timer.running /\ ~was_running
  /\ is_some(timer.remaining_time)
  /\ unwrap(timer.remaining_time) < time(timer.state)
  /\ since_last_poll > 0

\* C8: a poll of a stopped Timer changes no field but last_poll and does not
\* invoke the observer, also when remaining_time is None.
C8_StoppedPollNoEffect ==
  [][(op' = "poll" /\ ~timer.running)
       => /\ timer' = timer
          /\ fired' = <<>>
          /\ calls' = calls
          /\ since_last_poll' = 0]_vars
C8_Witness ==
  /\ op = "poll" /\ ~timer.running /\ ~was_running
  /\ is_none(timer.remaining_time)
  /\ is_some(timer.state_change_callback)
  /\ is_some(frozen) /\ unwrap(frozen).polls = MaxStoppedPolls

\* C9: the registered observer runs exactly in the polls that advance an
\* expired phase, once, with the state the Timer holds afterwards; start,
\* stop and toggle never run it.
C9_ObserverOnlyOnAdvance ==
  [][/\ is_some(fired') <=>
          /\ op' = "poll"
          /\ timer.running
          /\ is_none(timer.remaining_time)
          /\ is_some(timer.state_change_callback)
     /\ is_some(fired') =>
          /\ fired' = <<timer'.state>>
          /\ timer'.state # timer.state
          /\ calls' = calls + 1
     /\ is_none(fired') => (calls' = calls \/ op' = "new")]_vars
C9_Witness == op = "poll" /\ fired = <<"LongBreak">> /\ calls = 7

\* C10: start() on a running Timer changes no field and invokes no observer.
C10_StartIdempotent ==
  [][(op' = "start" /\ timer.running)
       => /\ timer' = timer
          /\ fired' = <<>>
          /\ calls' = calls]_vars
C10_Witness ==
  /\ op = "start" /\ was_running /\ timer.running
  /\ is_some(timer.state_change_callback)
  /\ timer.state = "ShortBreak"

\* C11: break_counter changes only in a poll that advances Work to a break,
\* where it becomes (break_counter + 1) mod 4; start, stop, toggle, the
\* pre-start -> Work and break -> Work transitions and every other poll leave
\* it as it is (a new Timer starts again at 0).
Breaks == {"ShortBreak", "LongBreak"}
C11_CounterOnlyOnWorkEnd ==
  [][/\ (timer'.break_counter # timer.break_counter /\ op' # "new")
          => /\ op' = "poll"
             /\ timer.state = "Pomodoro"
             /\ timer'.state \in Breaks
     /\ (timer.state = "Pomodoro" /\ timer'.state \in Breaks)
          => timer'.break_counter = (timer.break_counter + 1) % 4
     /\ op' \in {"start", "stop", "toggle", "on_state_change"}
          => timer'.break_counter = timer.break_counter]_vars
C11_Witness ==
  /\ op = "poll" /\ is_some(fired)
  /\ timer.state = "LongBreak" /\ timer.break_counter = 0 /\ advances = 8

\* C12: break_counter is always less than BREAK_CYCLE (4).
C12_CounterBelowCycle == timer.break_counter < 4
C12_Witness ==
  timer.break_counter = 0 /\ advances = 9 /\ timer.state = "Pomodoro"

\* C13: a running Timer has its start time set.
C13_RunningImpliesStarted ==
  timer.running => is_some(timer.state_start_time)
C13_Witness ==
  /\ timer.running /\ is_some(timer.state_start_time)
  /\ op = "toggle" /\ advances = 2

\* C14: the observer is never handed the pre-start state.
C14_ObserverNeverIdle ==
  is_some(fired) => unwrap(fired) \in {"Pomodoro", "ShortBreak", "LongBreak"}
C14_Witness == op = "poll" /\ fired = <<"Pomodoro">> /\ advances = 9

\* C15: while the Timer stays running and the loop keeps polling as time
\* passes, every Work phase is followed by a break and every break by a poll
\* that enters Work again, so Work is entered again and again.
C15_PhasesKeepAdvancing ==
  /\ (timer.running /\ timer.state = "Pomodoro") ~> (timer.state \in Breaks)
  /\ (timer.running /\ timer.state \in Breaks)
       ~> (op = "poll" /\ timer.state = "Pomodoro" /\ fired = <<"Pomodoro">>)
C15_Witness ==
  /\ timer.running /\ op = "poll"
  /\ timer.state = "Pomodoro" /\ fired = <<"Pomodoro">>
  /\ calls = MaxAdvances

\* C16: a poll of a running Timer with remaining_time = Some(r) that measures
\* e leaves Some(r - e) when e <= r (Some(0) when e = r) and None when e > r,
\* keeps state and break_counter and invokes no observer; a poll changes the
\* state only if it found the Timer running with remaining_time None.
C16_ExpiryOnePollLate ==
  [][/\ (op' = "poll" /\ timer.running /\ is_some(timer.remaining_time))
          => /\ timer'.remaining_time =
                  IF since_last_poll <= unwrap(timer.remaining_time)
                    THEN <<unwrap(timer.remaining_time) - since_last_poll>>
                    ELSE <<>>
             /\ timer'.state = timer.state
             /\ timer'.break_counter = timer.break_counter
             /\ fired' = <<>>
     /\ (op' = "poll" /\ timer'.state # timer.state)
          => timer.running /\ is_none(timer.remaining_time)]_vars
C16_Witness ==
  /\ op = "poll" /\ was_running /\ timer.running
  /\ timer.state = "ShortBreak" /\ is_none(timer.remaining_time)
  /\ fired = <<>>

\* C17: a poll of a running Timer with remaining_time = None moves the state
\* one step (Work -> ShortBreak while break_counter < 3, else LongBreak;
\* break -> Work) and leaves the full nominal duration of the new state
\* (1500, 300, 1800 s), whatever time the poll measured.
C17_AdvanceGivesFullDuration ==
  [][(op' = "poll" /\ timer.running /\ is_none(timer.remaining_time))
       => /\ timer.state = "Pomodoro" =>
               timer'.state = IF timer.break_counter < 3 THEN "ShortBreak"
                              ELSE "LongBreak"
          /\ timer.state \in Breaks => timer'.state = "Pomodoro"
          /\ timer'.state = "Pomodoro" => timer'.remaining_time = <<1500>>
          /\ timer'.state = "ShortBreak" => timer'.remaining_time = <<300>>
          /\ timer'.state = "LongBreak" => timer'.remaining_time = <<1800>>
          /\ timer'.state # "None"]_vars
C17_Witness ==
  /\ op = "poll" /\ was_running
  /\ timer.state = "ShortBreak" /\ timer.remaining_time = <<300>>
  /\ fired = <<"ShortBreak">> /\ timer.break_counter = 3

\* C18: in the loop of main(), every toggle negates running; the toggle of a
\* Timer that was never started moves the pre-start state to Work with
\* 1500 s remaining, every other toggle keeps state and remaining_time, and
\* no toggle changes break_counter.
C18_ToggleFlipsRunning ==
  [][op' = "toggle"
       => /\ timer'.running = ~timer.running
          /\ timer'.break_counter = timer.break_counter
          /\ IF advances = 0
               THEN /\ timer.state = "None" /\ timer'.state = "Pomodoro"
                    /\ timer'.remaining_time = <<1500>>
                    /\ timer'.running
               ELSE /\ timer'.state = timer.state
                    /\ timer'.remaining_time = timer.remaining_time]_vars
C18_Witness ==
  /\ pc = "poll" /\ op = "toggle" /\ was_running /\ ~timer.running
  /\ timer.state = "LongBreak" /\ timer.remaining_time = <<900>>

\* C19: LongBreak goes with break_counter 0, ShortBreak with 1, 2 or 3, the
\* pre-start state with 0.
C19_PhaseAgreesWithCounter ==
  /\ timer.state = "LongBreak" => timer.break_counter = 0
  /\ timer.state = "ShortBreak" => timer.break_counter \in {1, 2, 3}
  /\ timer.state = "None" => timer.break_counter = 0
C19_Witness ==
  timer.state = "LongBreak" /\ timer.break_counter = 0 /\ ~timer.running

\* C20: remaining_time, when Some, is at most the nominal duration of the
\* current state (1500 s before the start and in Work, 300 s in ShortBreak,
\* 1800 s in LongBreak), and while the state stays the same it does not
\* grow, nor return from None to Some.
Nominal(s) ==
  CASE s \in {"None", "Pomodoro"} -> 1500
    [] s = "ShortBreak" -> 300
    [] s = "LongBreak" -> 1800
C20_RemainingBounded ==
  /\ [](is_some(timer.remaining_time)
          => unwrap(timer.remaining_time) <= Nominal(timer.state))
  /\ [][timer'.state = timer.state
          => /\ is_none(timer.remaining_time) => is_none(timer'.remaining_time)
             /\ (is_some(timer.remaining_time) /\ is_some(timer'.remaining_time))
                  => unwrap(timer'.remaining_time) <= unwrap(timer.remaining_time)
        ]_vars
C20_Witness ==
  /\ op = "start" /\ ~was_running /\ timer.running
  /\ timer.state = "LongBreak" /\ timer.remaining_time = <<300>>
====
